---------------------------- MODULE Spec2Model ----------------------------
(***************************************************************************)
(* Two dashboard front-ends of the repository, each a React component      *)
(* named App:                                                              *)
(*   - src/src/App.tsx       the cost-estimate dashboard (data, activeTab, *)
(*                           expandedSections);                            *)
(*   - src/unnamed/part_000  the extraction dashboard (data, activeTab,    *)
(*                           searchQuery, selectedDiscipline); its state   *)
(*                           carries the prefix x here.                    *)
(* A component's state changes in its event handlers and in the fetch      *)
(* callback; React then calls the component again, which recomputes every  *)
(* derived value from the current state.  Each action below is a handler   *)
(* together with that re-render: the values the render computed are kept   *)
(* in view / xView.                                                        *)
(*                                                                         *)
(* Numbers are JavaScript doubles in the code and integers here (whole     *)
(* dollars, whole percents): sums of integers of this size are exact in    *)
(* both.  Text that the code inspects character by character (content,     *)
(* searchQuery) is a sequence of one-character strings; text it only       *)
(* compares or uses as a key is a string.                                  *)
(***************************************************************************)
EXTENDS Integers, Sequences, FiniteSets, TLC

VARIABLES
    response,           \* App.tsx: the document the pending fetch resolves to
    data,               \* App.tsx:78
    activeTab,          \* App.tsx:79
    expandedSections,   \* App.tsx:80
    view,               \* App.tsx: what the last render of App computed
    xResponse,          \* part_000: the document the pending fetch resolves to
    xData,              \* part_000:50
    xActiveTab,         \* part_000:51
    searchQuery,        \* part_000:52
    selectedDiscipline, \* part_000:53
    xView               \* part_000: what the last render of App computed

vars == <<response, data, activeTab, expandedSections, view,
          xResponse, xData, xActiveTab, searchQuery, selectedDiscipline, xView>>

estimateVars == <<response, data, activeTab, expandedSections, view>>
extractionVars == <<xResponse, xData, xActiveTab, searchQuery, selectedDiscipline, xView>>

(***************************************************************************)
(* Bounds of the model.                                                    *)
(***************************************************************************)
MaxLines == 3
MaxItems == 2
MaxStr == 2

\* useState<ProjectData | null>(null): the value of data before the fetch resolves.
Null == [null |-> TRUE]

(***************************************************************************)
(* Helpers over sequences.                                                 *)
(***************************************************************************)
RECURSIVE SumSeq(_)
SumSeq(s) == IF s = <<>> THEN 0 ELSE Head(s) + SumSeq(Tail(s))

\* All sequences over S of length at most n.
SeqsUpTo(S, n) == UNION {[1..k -> S] : k \in 0..n}

\* The number of positions of s holding x.
Occurrences(s, x) == Cardinality({i \in 1..Len(s) : s[i] = x})

(***************************************************************************)
(* A JavaScript object used as a map (Record<string, number>) is the       *)
(* sequence of its own <<key, value>> properties in insertion order.  A    *)
(* property whose value is NaN holds no number: it is the entry <<key>>.   *)
(***************************************************************************)
IsNaNEntry(e) == Len(e) = 1

HasKey(obj, k) == \E i \in 1..Len(obj) : obj[i][1] = k

GetKey(obj, k) == obj[CHOOSE i \in 1..Len(obj) : obj[i][1] = k][2]

\* Keys that are canonical array indices ("10", "26"; not "03"), with their
\* numeric value: Object.entries lists these first, in ascending numeric order.
ArrayIndex == [k \in {"10", "26"} |-> IF k = "10" THEN 10 ELSE 26]

IsArrayIndex(k) == k \in DOMAIN ArrayIndex

RECURSIVE InsertIndexAsc(_, _)
InsertIndexAsc(e, sorted) ==
    IF sorted = <<>> THEN <<e>>
    ELSE IF ArrayIndex[e[1]] < ArrayIndex[Head(sorted)[1]]
         THEN <<e>> \o sorted
         ELSE <<Head(sorted)>> \o InsertIndexAsc(e, Tail(sorted))

RECURSIVE SortIndexAsc(_, _)
SortIndexAsc(s, acc) ==
    IF s = <<>> THEN acc ELSE SortIndexAsc(Tail(s), InsertIndexAsc(Head(s), acc))

\* Object.entries(obj): integer-like keys ascending, then the string keys in
\* insertion order.
ObjectEntries(obj) ==
    SortIndexAsc(SelectSeq(obj, LAMBDA e : IsArrayIndex(e[1])), <<>>)
        \o SelectSeq(obj, LAMBDA e : ~IsArrayIndex(e[1]))

\* A variant that stores the increment instead of adding it.
AccumulateOverwrite(acc, key, inc) ==
    IF HasKey(acc, key)
    THEN [i \in 1..Len(acc) |-> IF acc[i][1] = key THEN <<key, inc>> ELSE acc[i]]
    ELSE Append(acc, <<key, inc>>)

\* acc[key] = (acc[key] || 0) + inc, with inc a number.  NaN and 0 are
\* falsy: the sum starts again from 0 after either.
Accumulate(acc, key, inc) ==
    IF HasKey(acc, key)
    THEN [i \in 1..Len(acc) |->
            IF acc[i][1] = key
            THEN <<key, (IF IsNaNEntry(acc[i]) \/ acc[i][2] = 0
                         THEN 0 ELSE acc[i][2]) + inc>>
            ELSE acc[i]]
    ELSE Append(acc, <<key, 0 + inc>>)

\* acc[key] = (acc[key] || 0) + undefined: a number plus undefined is NaN.
AccumulateUndefined(acc, key) ==
    IF HasKey(acc, key)
    THEN [i \in 1..Len(acc) |-> IF acc[i][1] = key THEN <<key>> ELSE acc[i]]
    ELSE Append(acc, <<key>>)

(***************************************************************************)
(* Array.prototype.sort with the comparator (a, b) => b[1] - a[1] (stable: *)
(* elements the comparator does not order keep their relative order).      *)
(***************************************************************************)
\* A variant comparator that orders ascending.
ByValueAsc(a, b) == a[2] - b[2]

ByValueDesc(a, b) == b[2] - a[2]

RECURSIVE InsertEntry(_, _)
InsertEntry(e, sorted) ==
    IF sorted = <<>> THEN <<e>>
    ELSE IF ByValueDesc(e, Head(sorted)) < 0
         THEN <<e>> \o sorted
         ELSE <<Head(sorted)>> \o InsertEntry(e, Tail(sorted))

RECURSIVE SortEntriesFrom(_, _)
SortEntriesFrom(s, acc) ==
    IF s = <<>> THEN acc ELSE SortEntriesFrom(Tail(s), InsertEntry(Head(s), acc))

SortEntries(s) == SortEntriesFrom(s, <<>>)

\* A variant filter that keeps zero totals.
NonNegativeEntries(entries) ==
    SelectSeq(entries, LAMBDA e : ~IsNaNEntry(e) /\ e[2] >= 0)

\* .filter(([, v]) => v > 0); NaN > 0 is false.
PositiveEntries(entries) ==
    SelectSeq(entries, LAMBDA e : ~IsNaNEntry(e) /\ e[2] > 0)

(***************************************************************************)
(* JavaScript numbers that come out of a division.  The quotient a / b is  *)
(* kept as the fraction num / den; with b = 0 the code gets Infinity,      *)
(* -Infinity or NaN (for a > 0, a < 0, a = 0): these are the fractions     *)
(* 1 / 0, -1 / 0 and 0 / 0.  No operator of the language throws on them.   *)
(***************************************************************************)
Sign(n) == IF n > 0 THEN 1 ELSE IF n < 0 THEN -1 ELSE 0

\* A number of the document, as such a fraction.
JSNumber(n) == [num |-> n, den |-> 1]

\* a / b
JSDivide(a, b) ==
    IF b = 0 THEN [num |-> Sign(a), den |-> 0] ELSE [num |-> a, den |-> b]

\* q * k
JSTimes(q, k) ==
    IF q.den = 0 THEN [num |-> Sign(q.num * k), den |-> 0]
    ELSE [num |-> q.num * k, den |-> q.den]

IsNaN(q) == q.den = 0 /\ q.num = 0

IsInfinity(q) == q.den = 0 /\ q.num # 0

\* The value undefined.
Undefined == [undefined |-> TRUE]

\* The outcome of a fetch whose promise chain rejects: the request fails, or
\* r.json() fails on a body that is no JSON.  The chain has no catch.
Rejected == [rejected |-> TRUE]

(***************************************************************************)
(* src/src/App.tsx: the derived values App computes on every render.       *)
(***************************************************************************)
SOURCE_LABELS ==
    ("cost_db" :> "Cost Database") @@
    ("cost_db_assembly" :> "DB Assembly") @@
    ("system_breakout_db" :> "System Breakout (DB)") @@
    ("system_breakout_fallback" :> "System Breakout (Est.)") @@
    ("rate_library_fallback" :> "Rate Library") @@
    ("parametric_gap_fill" :> "Parametric Gap-Fill")

\* SOURCE_LABELS[key] || key
SourceName(key) == IF key \in DOMAIN SOURCE_LABELS THEN SOURCE_LABELS[key] ELSE key

\* A line of the fetched JSON may lack the property total_cost:
\* line.total_cost is then undefined.
RECURSIVE ReduceSource(_, _)
ReduceSource(lines, acc) ==
    IF lines = <<>> THEN acc
    ELSE ReduceSource(Tail(lines),
                      IF "total_cost" \in DOMAIN Head(lines)
                      THEN Accumulate(acc, Head(lines).source, Head(lines).total_cost)
                      ELSE AccumulateUndefined(acc, Head(lines).source))

sourceBreakdown(d) == ReduceSource(d.lines, <<>>)

sourcePieData(d) ==
    LET sorted == SortEntries(PositiveEntries(ObjectEntries(sourceBreakdown(d))))
    IN  [i \in 1..Len(sorted) |->
            [name |-> SourceName(sorted[i][1]), value |-> sorted[i][2]]]

RECURSIVE ReduceConfidence(_, _)
ReduceConfidence(lines, acc) ==
    IF lines = <<>> THEN acc
    ELSE ReduceConfidence(Tail(lines), Accumulate(acc, Head(lines).confidence, 1))

confidenceCounts(d) == ReduceConfidence(d.lines, <<>>)


\* Object.values(confidenceCounts).reduce((a, b) => a + b, 0)
totalConfidence(counts) == SumSeq([i \in 1..Len(counts) |-> counts[i][2]])

\* (['high', 'medium', 'low'] as const).map(level => ...) in OverviewTab.
confidenceBarLevels == <<"high", "medium", "low">>

\* A variant that divides whatever the total is.
confidencePctUnguarded(count, total) == JSTimes(JSDivide(count, total), 100)

\* totalConfidence > 0 ? (count / totalConfidence * 100) : 0
confidencePct(count, total) ==
    IF total > 0 THEN JSTimes(JSDivide(count, total), 100) ELSE JSNumber(0)

\* One bar per level: count is confidenceCounts[level] || 0.
confidenceBars(counts) ==
    [i \in 1..Len(confidenceBarLevels) |->
        LET level == confidenceBarLevels[i]
            count == IF HasKey(counts, level) THEN GetKey(counts, level) ELSE 0
        IN  [level |-> level, count |-> count,
             pct |-> confidencePct(count, totalConfidence(counts))]]

(***************************************************************************)
(* ComparisonTab: one table row per section, in the order of data.sections.*)
(***************************************************************************)
GREEN == "#059669"
AMBER == "#ca8a04"
RED == "#dc2626"

\* A variant with the upper limit of the amber band at 130.
barColorBanded(pct) ==
    IF pct >= 90 /\ pct <= 110 THEN GREEN
    ELSE IF pct >= 80 /\ pct <= 130 THEN AMBER
    ELSE RED

\* pct >= 90 && pct <= 110 ? '#059669' : pct >= 80 ? '#ca8a04' : '#dc2626'
barColor(pct) ==
    IF pct >= 90 /\ pct <= 110 THEN GREEN
    ELSE IF pct >= 80 THEN AMBER
    ELSE RED

\* sectionBarData: data.sections.map((s, i) => ...), the bars of the overview
\* chart; color is the index into SECTION_COLORS.  The shortened label `name`
\* is a function of fullName and is left out.
sectionBarData(d) ==
    [i \in 1..Len(d.sections) |->
        LET s == d.sections[i]
        IN  [fullName |-> s.name, engine |-> s.engine, pla |-> s.pla,
             pct |-> s.pct, color |-> i - 1]]

\* A variant that subtracts the engine total from the benchmark total.
varianceFromBenchmark(s) == s.pla - s.engine

\* const variance = s.engine - s.pla
variance(s) == s.engine - s.pla

\* A variant that lists the sections from the last to the first.
comparisonRowsReversed(d) ==
    [i \in 1..Len(d.sections) |->
        LET s == d.sections[Len(d.sections) + 1 - i]
        IN  [name |-> s.name, engine |-> s.engine, pla |-> s.pla,
             variance |-> variance(s), pct |-> s.pct,
             barColor |-> barColor(s.pct)]]

\* data.sections.map(s => ...) in ComparisonTab: one row per section.
comparisonRows(d) ==
    [i \in 1..Len(d.sections) |->
        LET s == d.sections[i]
        IN  [name |-> s.name, engine |-> s.engine, pla |-> s.pla,
             variance |-> variance(s), pct |-> s.pct,
             barColor |-> barColor(s.pct)]]

\* data.summary.total_cost / data.benchmarks.pla.total * 100, in OverviewTab
\* and in the TOTAL row of ComparisonTab.
accuracy(d) ==
    JSTimes(JSDivide(d.summary.total_cost, d.benchmarks.pla.total), 100)

\* The class of the accuracy cell of the TOTAL row: a literal of the markup,
\* whatever the value shown in the cell.
TEXT_EMERALD == "text-emerald-400"

\* The TOTAL row that closes the comparison table.
totalRow(d) ==
    [name |-> "TOTAL", engine |-> d.summary.total_cost,
     pla |-> d.benchmarks.pla.total,
     variance |-> d.summary.total_cost - d.benchmarks.pla.total,
     accuracy |-> accuracy(d),
     accuracyClass |-> TEXT_EMERALD]

(***************************************************************************)
(* BreakdownTab: the division table.                                       *)
(***************************************************************************)
DIVISION_NAMES ==
    ("01" :> "General Requirements") @@ ("02" :> "Existing Conditions") @@
    ("03" :> "Concrete") @@ ("04" :> "Masonry") @@ ("05" :> "Metals") @@
    ("06" :> "Wood & Plastics") @@ ("07" :> "Thermal/Moisture") @@
    ("08" :> "Openings") @@ ("09" :> "Finishes") @@ ("10" :> "Specialties") @@
    ("11" :> "Equipment") @@ ("12" :> "Furnishings") @@ ("14" :> "Conveying") @@
    ("21" :> "Fire Suppression") @@ ("22" :> "Plumbing") @@ ("23" :> "HVAC") @@
    ("25" :> "Integrated Automation") @@ ("26" :> "Electrical") @@
    ("27" :> "Communications") @@ ("28" :> "Electronic Safety") @@
    ("31" :> "Earthwork") @@ ("32" :> "Ext. Improvements") @@ ("33" :> "Utilities")

\* `${div} ${DIVISION_NAMES[div] || div}`, kept as the pair of its two parts.
DivisionLabel(div) ==
    <<div, IF div \in DOMAIN DIVISION_NAMES THEN DIVISION_NAMES[div] ELSE div>>

divData(d) ==
    LET sorted == SortEntries(PositiveEntries(ObjectEntries(d.division_totals)))
    IN  [i \in 1..Len(sorted) |->
            [name |-> DivisionLabel(sorted[i][1]), total |-> sorted[i][2],
             pct |-> JSTimes(JSDivide(sorted[i][2], d.summary.total_cost), 100)]]

\* The $/SF cell of each row of the division table:
\* d.total / data.project.gross_floor_area_sf
costPerSF(d) ==
    [i \in 1..Len(divData(d)) |->
        JSDivide(divData(d)[i].total, d.project.gross_floor_area_sf)]

\* A variant that leaves out the factor 100.
sourceShareUnscaled(d) ==
    [i \in 1..Len(sourcePieData(d)) |->
        JSDivide(sourcePieData(d)[i].value, d.summary.total_cost)]

\* The share shown beside each pricing source:
\* s.value / data.summary.total_cost * 100
sourceShare(d) ==
    [i \in 1..Len(sourcePieData(d)) |->
        JSTimes(JSDivide(sourcePieData(d)[i].value, d.summary.total_cost), 100)]

(***************************************************************************)
(* DetailsTab: the lines of each section.                                  *)
(***************************************************************************)
\* section.divisions.includes(x)
Includes(arr, x) == \E i \in 1..Len(arr) : arr[i] = x

\* data.lines.filter(l => section.divisions.includes(l.csi_division))
sectionLines(d, section) ==
    SelectSeq(d.lines, LAMBDA l : Includes(section.divisions, l.csi_division))

\* A variant comparator that orders ascending.
ByTotalCostAsc(a, b) == a.total_cost - b.total_cost

\* (a, b) => b.total_cost - a.total_cost
ByTotalCostDesc(a, b) == b.total_cost - a.total_cost

RECURSIVE InsertLine(_, _)
InsertLine(l, sorted) ==
    IF sorted = <<>> THEN <<l>>
    ELSE IF ByTotalCostDesc(l, Head(sorted)) < 0
         THEN <<l>> \o sorted
         ELSE <<Head(sorted)>> \o InsertLine(l, Tail(sorted))

RECURSIVE SortLinesFrom(_, _)
SortLinesFrom(s, acc) ==
    IF s = <<>> THEN acc ELSE SortLinesFrom(Tail(s), InsertLine(Head(s), acc))

\* A variant in which sort() is called on data.lines.
sortReceiverDataLines == "lines"

\* sectionLines.sort(...): the array sort() reorders, and returns, is the one
\* it is called on.
sortReceiver == "sectionLines"

\* DetailsTab's render of one section over the arrays it can reach: lines is
\* data.lines, sectionLines the new array filter() returns.  sort() runs
\* only for an expanded section; rows is the array whose elements become
\* table rows.
renderSection(lines, section, isExpanded) ==
    LET filtered == [lines |-> lines, sectionLines |-> sectionLines([lines |-> lines], section)]
        sorted == [filtered EXCEPT ![sortReceiver] = SortLinesFrom(@, <<>>)]
        arrays == IF isExpanded THEN sorted ELSE filtered
    IN  [lines |-> arrays.lines,
         section |-> [name |-> section.name,
                      count |-> Len(filtered.sectionLines),
                      isExpanded |-> isExpanded,
                      sectionLines |-> arrays.sectionLines,
                      rows |-> IF isExpanded THEN arrays[sortReceiver] ELSE <<>>]]

\* data.sections.map(section => ...): the sections are rendered in order,
\* each over data.lines as the ones before it left that array.
RECURSIVE renderSections(_, _, _)
renderSections(lines, sections, expanded) ==
    IF sections = <<>> THEN [lines |-> lines, sections |-> <<>>]
    ELSE LET first == renderSection(lines, Head(sections), Head(sections).name \in expanded)
             rest == renderSections(first.lines, Tail(sections), expanded)
         IN  [lines |-> rest.lines, sections |-> <<first.section>> \o rest.sections]

\* One entry per section, in the order of data.sections.
detailsSections(d, expanded) == renderSections(d.lines, d.sections, expanded).sections

(***************************************************************************)
(* One render of App (src/src/App.tsx:77-258): the loading placeholder     *)
(* while data is null, else the values computed in App's body and by the   *)
(* component of the active tab.                                            *)
(***************************************************************************)
Tabs == {"overview", "comparison", "breakdown", "details", "methodology"}

TabContent(d, tab, expanded) ==
    CASE tab = "overview" ->
            [accuracy |-> accuracy(d),
             totalConfidence |-> totalConfidence(confidenceCounts(d)),
             confidenceBars |-> confidenceBars(confidenceCounts(d))]
      [] tab = "comparison" -> [rows |-> comparisonRows(d), total |-> totalRow(d)]
      [] tab = "breakdown" ->
            [divData |-> divData(d), costPerSF |-> costPerSF(d),
             sourceShare |-> sourceShare(d)]
      [] tab = "details" ->
            [itemCount |-> Len(d.lines), sections |-> detailsSections(d, expanded)]
      [] OTHER -> [steps |-> 6]

\* data.benchmarks.pla.total where data.benchmarks has no property pla:
\* reading a property of undefined throws a TypeError.
Throws(d, tab) ==
    /\ tab \in {"overview", "comparison"}
    /\ "pla" \notin DOMAIN d.benchmarks

\* A variant without the loading guard: the first render reads data.lines of
\* null, which throws.
RenderWithoutGuard(d, tab, expanded) ==
    IF d = Null \/ Throws(d, tab) THEN [loading |-> FALSE, threw |-> TRUE]
    ELSE [loading |-> FALSE,
          threw |-> FALSE,
          sourcePieData |-> sourcePieData(d),
          sectionBarData |-> sectionBarData(d),
          confidenceCounts |-> confidenceCounts(d),
          content |-> TabContent(d, tab, expanded)]

\* No component catches an exception of a render: React then removes the
\* whole tree, and nothing of the dashboard is left on the page.
Render(d, tab, expanded) ==
    IF d = Null THEN [loading |-> TRUE]
    ELSE IF Throws(d, tab) THEN [loading |-> FALSE, threw |-> TRUE]
    ELSE [loading |-> FALSE,
          threw |-> FALSE,
          sourcePieData |-> sourcePieData(d),
          sectionBarData |-> sectionBarData(d),
          confidenceCounts |-> confidenceCounts(d),
          content |-> TabContent(d, tab, expanded)]

\* The document after a render.  Of the arrays of the document, a render
\* calls sort() only in DetailsTab; reduce, filter, map and Object.entries
\* build new values.
DataAfterRender(d, tab, expanded) ==
    IF tab = "details"
    THEN [d EXCEPT !.lines = renderSections(d.lines, d.sections, expanded).lines]
    ELSE d

(***************************************************************************)
(* Actions of the estimate dashboard.                                      *)
(***************************************************************************)
\* fetch('/data/estimate-v2.json').then(r => r.json()).then(setData): the
\* fetch started by the effect of the first render resolves.  A chain that
\* rejects never calls setData, and nothing else does.
setData ==
    /\ data = Null
    /\ response # Rejected
    /\ data' = DataAfterRender(response, activeTab, expandedSections)
    /\ view' = Render(response, activeTab, expandedSections)
    /\ UNCHANGED <<response, activeTab, expandedSections, extractionVars>>

\* onClick={() => setActiveTab(tab.id)}; the tab bar exists once data is set
\* and while the tree is mounted.
setActiveTab(tab) ==
    /\ data # Null
    /\ ~view.threw
    /\ activeTab' = tab
    /\ data' = DataAfterRender(data, activeTab', expandedSections)
    /\ view' = Render(data, activeTab', expandedSections)
    /\ UNCHANGED <<response, expandedSections, extractionVars>>

\* A variant that adds the name and never deletes it.
toggledAddOnly(prev, name) == prev \cup {name}

\* The updater of toggleSection: const next = new Set(prev);
\* next.has(name) ? next.delete(name) : next.add(name); return next
toggled(prev, name) ==
    IF name \in prev THEN prev \ {name} ELSE prev \cup {name}

\* toggleSection(name), from the header button of a section in DetailsTab.
toggleSection(name) ==
    /\ data # Null
    /\ ~view.threw
    /\ activeTab = "details"
    /\ expandedSections' = toggled(expandedSections, name)
    /\ data' = DataAfterRender(data, activeTab, expandedSections')
    /\ view' = Render(data, activeTab, expandedSections')
    /\ UNCHANGED <<response, activeTab, extractionVars>>

NextEstimate ==
    \/ setData
    \/ \E tab \in Tabs : setActiveTab(tab)
    \/ /\ data # Null
       /\ \E i \in 1..Len(data.sections) : toggleSection(data.sections[i].name)


(***************************************************************************)
(* Estimate documents (interface ProjectData, src/src/App.tsx:13-32) the   *)
(* fetch may deliver.  Only the fields the aggregation reads are kept.     *)
(* Each family below varies the fields one group of views depends on and   *)
(* fixes the others.                                                       *)
(***************************************************************************)
Divisions == {"03", "09", "26"}
Sources == {"cost_db", "parametric_gap_fill", "manual"}
Confidences == {"high", "medium", "low", "unknown"}
Costs == {-1, 0, 1, 2}

LineOf(cost, div, src, conf) ==
    [description |-> "item", total_cost |-> cost, csi_division |-> div,
     source |-> src, confidence |-> conf]

SectionOf(name, divs, pct) ==
    [name |-> name, divisions |-> divs, pla |-> 10, engine |-> 9, pct |-> pct]

DocOf(lines, sections, totals) ==
    [project |-> [gross_floor_area_sf |-> 100],
     summary |-> [total_cost |-> 10],
     sections |-> sections,
     division_totals |-> totals,
     lines |-> lines,
     benchmarks |-> [pla |-> [total |-> 10]]]

OneSection == <<SectionOf("Structure", <<"03">>, 90)>>

NoTotals == <<<<"03", 10>>>>

\* Lines that differ in pricing source and cost.
SourceDocs ==
    {DocOf(ls, OneSection, NoTotals) :
        ls \in SeqsUpTo({LineOf(c, "03", s, "high") : c \in Costs, s \in Sources},
                        MaxLines)}

\* Lines that differ in confidence tier.
ConfidenceDocs ==
    {DocOf(ls, OneSection, NoTotals) :
        ls \in SeqsUpTo({LineOf(1, "03", "cost_db", c) : c \in Confidences},
                        MaxLines)}

\* Two sections whose division lists may overlap, be empty, or leave a
\* division of the lines unclaimed.
DivisionLists == {<<>>, <<"03">>, <<"09">>, <<"03", "09">>}

SectionDocs ==
    {DocOf(ls, <<SectionOf("Structure", da, 90), SectionOf("Finishes", db, 90)>>,
           NoTotals) :
        ls \in SeqsUpTo({LineOf(c, dv, "cost_db", "high") :
                            c \in {1, 2}, dv \in Divisions}, MaxLines - 1),
        da \in DivisionLists, db \in DivisionLists}

\* Up to MaxLines lines of two divisions and two costs, under a first section
\* that claims one or both divisions.
SortDocs ==
    {DocOf(ls, <<SectionOf("Structure", da, 90), SectionOf("Finishes", <<"09">>, 90)>>,
           NoTotals) :
        ls \in SeqsUpTo({LineOf(c, dv, "cost_db", "high") :
                            c \in {1, 2}, dv \in {"03", "09"}}, MaxLines),
        da \in {<<"03">>, <<"03", "09">>}}

\* Sections that differ in the accuracy percentage the document supplies.
Percents == {0, 79, 80, 89, 90, 95, 110, 111, 130, 131, 200}

PctDocs ==
    {DocOf(<<LineOf(1, "03", "cost_db", "high")>>,
           <<SectionOf("Structure", <<"03">>, pa), SectionOf("Finishes", <<"09">>, pb)>>,
           NoTotals) :
        pa \in Percents, pb \in Percents}

\* Documents whose division_totals need not agree with their lines.
TotalsObjects ==
    {<<<<"03", a>>, <<"09", b>>, <<"26", c>>>> : a \in Costs, b \in Costs, c \in Costs}
    \cup {<<<<"26", a>>, <<"09", b>>>> : a \in Costs, b \in Costs}

DivisionDocs ==
    {DocOf(ls, OneSection, t) :
        ls \in SeqsUpTo({LineOf(1, dv, "cost_db", "high") : dv \in {"03", "26"}},
                        MaxLines - 1),
        t \in TotalsObjects}

\* Sections that differ in their engine total, their benchmark total and the
\* percentage the document supplies for them.
CompareDocs ==
    {DocOf(<<LineOf(1, "03", "cost_db", "high")>>,
           <<[SectionOf("Structure", <<"03">>, pa) EXCEPT !.engine = e, !.pla = p],
             SectionOf("Finishes", <<"09">>, pb)>>,
           NoTotals) :
        e \in {0, 9, 10}, p \in {0, 10}, pa \in {0, 90, 100, 200}, pb \in {90, 100}}

\* Lines of two sources with costs of either sign, under a summary.total_cost
\* that may or may not be the sum of the lines.
ShareDocs ==
    {[DocOf(ls, OneSection, NoTotals) EXCEPT !.summary.total_cost = tc] :
        ls \in SeqsUpTo({LineOf(c, "03", s, "high") :
                            c \in {-1, 1, 2}, s \in {"cost_db", "manual"}}, MaxLines),
        tc \in {0, 3, 10}}

\* Documents that were not validated: lines without the property total_cost
\* (in a division no section lists, so that no sort compares them) and
\* lines of a pricing source or confidence outside the known values.
LineWithoutTotalCost(src) ==
    [description |-> "item", csi_division |-> "09", source |-> src,
     confidence |-> "high"]

MalformedDocs ==
    {DocOf(ls, OneSection, NoTotals) :
        ls \in SeqsUpTo({LineOf(c, "03", s, "high") :
                            c \in {1, 2}, s \in {"cost_db", "manual"}}
                        \cup {LineOf(1, "03", "cost_db", "unknown")}
                        \cup {LineWithoutTotalCost(s) : s \in {"cost_db", "manual"}},
                        MaxLines)}

\* Documents that differ in the denominators of the ratios: the floor area,
\* the total cost and the benchmarks (with and without the key pla).
Areas == {-100, 0, 100}

TotalCosts == {0, 10}

Benchmarks ==
    {[pla |-> [total |-> t]] : t \in {0, 10}}
    \cup {[hanscomb |-> [total |-> 10]]}

RatioDocs ==
    {[DocOf(ls, OneSection, t) EXCEPT !.project.gross_floor_area_sf = a,
                                      !.summary.total_cost = tc,
                                      !.benchmarks = b] :
        ls \in SeqsUpTo({LineOf(5, "03", s, "high") : s \in {"cost_db", "manual"}},
                        MaxLines - 1),
        t \in {<<<<"03", 4>>, <<"09", 6>>>>, <<<<"03", 0>>>>},
        a \in Areas, tc \in TotalCosts, b \in Benchmarks}

\* The extraction dashboard, not mounted.
ExtractionIdle ==
    /\ xResponse = Null
    /\ xData = Null
    /\ xActiveTab = "overview"
    /\ searchQuery = <<>>
    /\ selectedDiscipline = "all"
    /\ xView = [loading |-> TRUE]

InitEstimate(Docs) ==
    /\ response \in Docs
    /\ data = Null
    /\ activeTab = "overview"
    /\ expandedSections = {}
    /\ view = Render(data, activeTab, expandedSections)
    /\ ExtractionIdle

SpecSource == InitEstimate(SourceDocs) /\ [][NextEstimate]_vars
SpecConfidence == InitEstimate(ConfidenceDocs) /\ [][NextEstimate]_vars
SpecSections == InitEstimate(SectionDocs) /\ [][NextEstimate]_vars
SpecSort == InitEstimate(SortDocs) /\ [][NextEstimate]_vars

SpecPct == InitEstimate(PctDocs) /\ [][NextEstimate]_vars
SpecRatios == InitEstimate(RatioDocs) /\ [][NextEstimate]_vars

SpecCompare == InitEstimate(CompareDocs) /\ [][NextEstimate]_vars

SpecShares == InitEstimate(ShareDocs) /\ [][NextEstimate]_vars

SpecMalformed == InitEstimate(MalformedDocs) /\ [][NextEstimate]_vars

SpecDivisions == InitEstimate(DivisionDocs) /\ [][NextEstimate]_vars

(***************************************************************************)
(* src/unnamed/part_000: the extraction dashboard.                         *)
(***************************************************************************)
Chars == {"a", "A", "b"}

\* String.prototype.toLowerCase, one character at a time.
toLowerCaseChar(c) == IF c = "A" THEN "a" ELSE c

toLowerCase(str) == [i \in 1..Len(str) |-> toLowerCaseChar(str[i])]

\* String.prototype.includes: needle occurs in str at some offset.
includes(str, needle) ==
    \E k \in 0..(Len(str) - Len(needle)) :
        SubSeq(str, k + 1, k + Len(needle)) = needle

\* A variant that lower-cases the content only.
matchSearchQueryAsTyped(item, query) ==
    query = <<>> \/ includes(toLowerCase(item.content), query)

\* !searchQuery || item.content.toLowerCase().includes(searchQuery.toLowerCase())
matchSearch(item, query) ==
    query = <<>> \/ includes(toLowerCase(item.content), toLowerCase(query))

\* A variant that compares the two discipline keys without their case.
LowerKey(key) == IF key = "Mechanical" THEN "mechanical" ELSE key

matchDiscIgnoringCase(item, selected) ==
    selected = "all" \/ LowerKey(item.discipline) = LowerKey(selected)

\* A variant without the 'all' case.
matchDiscExact(item, selected) == item.discipline = selected

\* selectedDiscipline === 'all' || item.discipline === selectedDiscipline
matchDisc(item, selected) == selected = "all" \/ item.discipline = selected

\* A variant that joins the two predicates with ||.
keepsItemEither(item, query, selected) ==
    matchSearch(item, query) \/ matchDisc(item, selected)

\* return matchSearch && matchDisc
keepsItem(item, query, selected) ==
    matchSearch(item, query) /\ matchDisc(item, selected)

\* data.sample_items.filter(item => ...)
filteredItems(d, query, selected) ==
    SelectSeq(d.sample_items, LAMBDA item : keepsItem(item, query, selected))

\* The keys of data.disciplines: the values of the discipline select besides
\* 'all'.
DisciplineKeys(d) == {d.disciplines[i][1] : i \in 1..Len(d.disciplines)}

XTabs == {"overview", "disciplines", "items"}

\* filteredItems.slice(0, 100): the end index of the slice.
SliceEnd == 100

\* filteredItems.length > 100: the length above which the notice is rendered.
NoticeThreshold == 100

\* A variant that renders a row for every filtered item.
shownRowsAll(filtered) == filtered

\* filteredItems.slice(0, 100).map((item, i) => <tr ...>): one table row per
\* element of the slice, showing fields of that item.
shownRows(filtered) ==
    SubSeq(filtered, 1, IF Len(filtered) < SliceEnd THEN Len(filtered) ELSE SliceEnd)

\* {filteredItems.length > 100 && (<div>Showing 100 of {n} items</div>)}
notice(filtered) ==
    IF Len(filtered) > NoticeThreshold
    THEN [visible |-> TRUE, shown |-> 100, of |-> Len(filtered)]
    ELSE [visible |-> FALSE]

\* The items tab: the line '{n} items shown', the table and the notice.
\* The count is kept as the number toLocaleString() formats.  Of the other
\* tabs, whose charts read data only, the name is kept.
XTabContent(tab, filtered) ==
    IF tab = "items"
    THEN [itemsShown |-> Len(filtered), rows |-> shownRows(filtered),
          notice |-> notice(filtered)]
    ELSE [tab |-> tab]

\* A variant that computes the filtered items once per document, for the
\* filter values of the first render, as a memo keyed on data alone would.
XRenderInitialFilter(d, tab, query, selected) ==
    IF d = Null THEN [loading |-> TRUE]
    ELSE [loading |-> FALSE,
          filteredItems |-> filteredItems(d, <<>>, "all"),
          content |-> XTabContent(tab, filteredItems(d, <<>>, "all"))]

\* One render of App (part_000:49-356): the loading placeholder while data
\* is null, else filteredItems, computed in App's body, and the active tab.
XRender(d, tab, query, selected) ==
    IF d = Null THEN [loading |-> TRUE]
    ELSE [loading |-> FALSE,
          filteredItems |-> filteredItems(d, query, selected),
          content |-> XTabContent(tab, filteredItems(d, query, selected))]

\* The document after a render: filter() builds a new array and leaves
\* data.sample_items as it was.
XDataAfterRender(d, query, selected) == d

\* fetch('/data/extraction-v1.json').then(r => r.json()).then(setData): the
\* fetch started by the effect of the first render resolves.  A chain that
\* rejects never calls setData, and nothing else does.
xSetData ==
    /\ xData = Null
    /\ xResponse # Rejected
    /\ xData' = XDataAfterRender(xResponse, searchQuery, selectedDiscipline)
    /\ xView' = XRender(xResponse, xActiveTab, searchQuery, selectedDiscipline)
    /\ UNCHANGED <<xResponse, xActiveTab, searchQuery, selectedDiscipline, estimateVars>>

\* onClick={() => setActiveTab(tab)}
xSetActiveTab(tab) ==
    /\ xData # Null
    /\ xActiveTab' = tab
    /\ xData' = XDataAfterRender(xData, searchQuery, selectedDiscipline)
    /\ xView' = XRender(xData, xActiveTab', searchQuery, selectedDiscipline)
    /\ UNCHANGED <<xResponse, searchQuery, selectedDiscipline, estimateVars>>

\* onChange={e => setSearchQuery(e.target.value)}; the input is part of the
\* items tab.
setSearchQuery(text) ==
    /\ xData # Null
    /\ xActiveTab = "items"
    /\ searchQuery' = text
    /\ xData' = XDataAfterRender(xData, searchQuery', selectedDiscipline)
    /\ xView' = XRender(xData, xActiveTab, searchQuery', selectedDiscipline)
    /\ UNCHANGED <<xResponse, xActiveTab, selectedDiscipline, estimateVars>>

\* onChange={e => setSelectedDiscipline(e.target.value)}
setSelectedDiscipline(value) ==
    /\ xData # Null
    /\ xActiveTab = "items"
    /\ selectedDiscipline' = value
    /\ xData' = XDataAfterRender(xData, searchQuery, selectedDiscipline')
    /\ xView' = XRender(xData, xActiveTab, searchQuery, selectedDiscipline')
    /\ UNCHANGED <<xResponse, xActiveTab, searchQuery, estimateVars>>

Texts == SeqsUpTo(Chars, MaxStr)

NextExtraction ==
    \/ xSetData
    \/ \E tab \in XTabs : xSetActiveTab(tab)
    \/ \E text \in Texts : setSearchQuery(text)
    \/ /\ xData # Null
       /\ \E value \in {"all"} \cup DisciplineKeys(xData) : setSelectedDiscipline(value)

(***************************************************************************)
(* Extraction documents (interface ExtractionData, part_000:5-14) the      *)
(* fetch may deliver; of an item, the fields the filter reads.             *)
(***************************************************************************)
ItemOf(content, discipline) == [content |-> content, discipline |-> discipline]

TwoDisciplines ==
    <<<<"mechanical", [name |-> "Mechanical HVAC", items |-> 2]>>,
      <<"electrical", [name |-> "Electrical", items |-> 1]>>>>

XDocOf(items) == [disciplines |-> TwoDisciplines, sample_items |-> items]

\* Up to MaxItems items over a few contents and both disciplines.
FilterDocs ==
    {XDocOf(items) :
        items \in SeqsUpTo({ItemOf(c, dc) : c \in {<<"A", "b">>, <<"b">>},
                                           dc \in {"mechanical", "electrical"}},
                          MaxItems)}

\* One item with any content of up to MaxStr characters.
SearchDocs ==
    {XDocOf(<<ItemOf(c, dc)>>) : c \in Texts, dc \in {"mechanical", "electrical"}}

\* Discipline keys that differ in case only or are a prefix of one another,
\* and items of a discipline that data.disciplines does not list.
CloseDisciplines ==
    <<<<"mechanical", [name |-> "Mechanical HVAC", items |-> 2]>>,
      <<"Mechanical", [name |-> "Mechanical Plumbing", items |-> 1]>>,
      <<"mech", [name |-> "Mech", items |-> 1]>>>>

DisciplineDocs ==
    {[disciplines |-> CloseDisciplines, sample_items |-> items] :
        items \in SeqsUpTo({ItemOf(<<"b">>, dc) :
                                dc \in {"mechanical", "Mechanical", "mech", "civil"}},
                           MaxItems)}

\* Documents with about a hundred and about two hundred items, told apart
\* by their page; the disciplines alternate, and every third content is "b".
PagedItem(i) ==
    [page |-> i,
     content |-> IF i % 3 = 0 THEN <<"b">> ELSE <<"a">>,
     discipline |-> IF i % 2 = 1 THEN "mechanical" ELSE "electrical"]

PagedLengths == {0, 99, 100, 101, 201, 202}

PagedDocs == {XDocOf([i \in 1..n |-> PagedItem(i)]) : n \in PagedLengths}

\* The estimate dashboard, not mounted.
EstimateIdle ==
    /\ response = Null
    /\ data = Null
    /\ activeTab = "overview"
    /\ expandedSections = {}
    /\ view = [loading |-> TRUE]

InitExtraction(Docs) ==
    /\ xResponse \in Docs
    /\ xData = Null
    /\ xActiveTab = "overview"
    /\ searchQuery = <<>>
    /\ selectedDiscipline = "all"
    /\ xView = XRender(xData, xActiveTab, searchQuery, selectedDiscipline)
    /\ EstimateIdle

\* Both dashboards mounted, each with a fetch that delivers a document or
\* rejects.
LoadOutcomes ==
    {DocOf(ls, OneSection, NoTotals) :
        ls \in SeqsUpTo({LineOf(1, "03", "cost_db", "high")}, 1)}
    \cup {Rejected}

XLoadOutcomes ==
    {XDocOf(items) : items \in SeqsUpTo({ItemOf(<<"b">>, "mechanical")}, 1)}
    \cup {Rejected}

InitLoading ==
    /\ response \in LoadOutcomes
    /\ data = Null
    /\ activeTab = "overview"
    /\ expandedSections = {}
    /\ view = Render(data, activeTab, expandedSections)
    /\ xResponse \in XLoadOutcomes
    /\ xData = Null
    /\ xActiveTab = "overview"
    /\ searchQuery = <<>>
    /\ selectedDiscipline = "all"
    /\ xView = XRender(xData, xActiveTab, searchQuery, selectedDiscipline)

NextLoading == NextEstimate \/ NextExtraction

SpecFilter == InitExtraction(FilterDocs) /\ [][NextExtraction]_vars
SpecSearch == InitExtraction(SearchDocs) /\ [][NextExtraction]_vars
SpecDiscipline == InitExtraction(DisciplineDocs) /\ [][NextExtraction]_vars
SpecPaged == InitExtraction(PagedDocs) /\ [][NextExtraction]_vars
SpecLoading == InitLoading /\ [][NextLoading]_vars

(***************************************************************************)
(* Properties of the estimate dashboard.                                   *)
(***************************************************************************)
Range(s) == {s[i] : i \in 1..Len(s)}

\* The sum of total_cost over the lines priced from source src.
GroupTotal(lines, src) ==
    LET of == SelectSeq(lines, LAMBDA l : l.source = src)
    IN  SumSeq([i \in 1..Len(of) |-> of[i].total_cost])

LinesTotal(lines) == SumSeq([i \in 1..Len(lines) |-> lines[i].total_cost])

SourcesOf(lines) == {lines[i].source : i \in 1..Len(lines)}

PieTotal(pie) == SumSeq([i \in 1..Len(pie) |-> pie[i].value])

Descending(values) == \A i \in 1..(Len(values) - 1) : values[i] >= values[i + 1]

\* C1: the section buckets of DetailsTab, together with the bucket of the
\* lines whose division no section claims, partition data.lines as a
\* multiset: every line is in exactly one bucket.
Unassigned(d) ==
    SelectSeq(d.lines,
              LAMBDA l : \A i \in 1..Len(d.sections) :
                            ~Includes(d.sections[i].divisions, l.csi_division))

C1_SectionsPartitionLines ==
    (data # Null /\ activeTab = "details") =>
        \A l \in Range(data.lines) :
            Occurrences(data.lines, l) =
                SumSeq([i \in 1..Len(view.content.sections) |->
                            Occurrences(view.content.sections[i].sectionLines, l)])
                + Occurrences(Unassigned(data), l)

\* C2 as stated: the values of sourcePieData sum to the total_cost of all
\* the lines.
C2_SumEqualsLinesTotal ==
    data # Null => PieTotal(view.sourcePieData) = LinesTotal(data.lines)

\* C2 as amended: the values of sourcePieData sum to the total_cost of the
\* lines whose source has a positive summed total, which is the total of all
\* the lines when no source's summed total is negative.
C2_SumEqualsPositiveGroups ==
    data # Null =>
        LET kept == SelectSeq(data.lines,
                              LAMBDA l : GroupTotal(data.lines, l.source) > 0)
        IN  /\ PieTotal(view.sourcePieData) = LinesTotal(kept)
            /\ (\A s \in SourcesOf(data.lines) : GroupTotal(data.lines, s) >= 0)
                    => PieTotal(view.sourcePieData) = LinesTotal(data.lines)

C2_Witness ==
    /\ data # Null
    /\ Len(view.sourcePieData) >= 1
    /\ \E s \in SourcesOf(data.lines) : GroupTotal(data.lines, s) < 0
    /\ \E i, j \in 1..Len(data.lines) :
            /\ i # j
            /\ data.lines[i].source = data.lines[j].source
            /\ GroupTotal(data.lines, data.lines[i].source) > 0

\* C3: sourcePieData has one entry per source whose summed total_cost is
\* positive, carrying that sum, none for a source whose sum is zero or
\* negative, and its values are in descending order.
C3_GroupedFilteredSorted ==
    data # Null =>
        LET pie == view.sourcePieData
            positive == {s \in SourcesOf(data.lines) : GroupTotal(data.lines, s) > 0}
        IN  /\ Len(pie) = Cardinality(positive)
            /\ \A s \in positive :
                    \E i \in 1..Len(pie) :
                        /\ pie[i].name = SourceName(s)
                        /\ pie[i].value = GroupTotal(data.lines, s)
            /\ \A s \in SourcesOf(data.lines) \ positive :
                    \A i \in 1..Len(pie) : pie[i].name # SourceName(s)
            /\ Descending([i \in 1..Len(pie) |-> pie[i].value])

C3_Witness ==
    /\ data # Null
    /\ Len(view.sourcePieData) = 2
    /\ view.sourcePieData[1].value > view.sourcePieData[2].value
    /\ view.sourcePieData[2].name = SourceName(data.lines[1].source)
    /\ \E s \in SourcesOf(data.lines) : GroupTotal(data.lines, s) <= 0

\* C4 as stated: a row is green (on_target) when 90 <= pct <= 110, amber
\* (acceptable) when 80 <= pct < 90 or 110 < pct <= 130, red (off_target)
\* otherwise.
C4_TierBands ==
    (data # Null /\ activeTab = "comparison") =>
        \A i \in 1..Len(view.content.rows) :
            LET r == view.content.rows[i]
            IN  r.barColor =
                    IF r.pct >= 90 /\ r.pct <= 110 THEN GREEN
                    ELSE IF (r.pct >= 80 /\ r.pct < 90) \/ (r.pct > 110 /\ r.pct <= 130)
                         THEN AMBER
                         ELSE RED

\* C4 as amended: a row is green when 90 <= pct <= 110, amber when
\* 80 <= pct < 90 or pct > 110 (above 130 too), red when pct < 80; pct is
\* the percentage the document supplies for the section.
C4_TierBandsOpenAbove ==
    (data # Null /\ activeTab = "comparison") =>
        /\ Len(view.content.rows) = Len(data.sections)
        /\ \A i \in 1..Len(view.content.rows) :
            LET r == view.content.rows[i]
            IN  /\ r.pct = data.sections[i].pct
                /\ (r.barColor = GREEN) = (r.pct >= 90 /\ r.pct <= 110)
                /\ (r.barColor = AMBER) = ((r.pct >= 80 /\ r.pct < 90) \/ r.pct > 110)
                /\ (r.barColor = RED) = (r.pct < 80)

C4_Witness ==
    /\ data # Null
    /\ activeTab = "comparison"
    /\ view.content.rows[1].pct = 95
    /\ view.content.rows[1].barColor = GREEN
    /\ view.content.rows[2].pct > 130
    /\ view.content.rows[2].barColor = AMBER

\* The total_cost of the lines of division dv.
DivisionTotal(lines, dv) ==
    LET of == SelectSeq(lines, LAMBDA l : l.csi_division = dv)
    IN  SumSeq([i \in 1..Len(of) |-> of[i].total_cost])

DivisionsOf(lines) == {lines[i].csi_division : i \in 1..Len(lines)}

\* The division table lists the divisions whose lines sum to a positive
\* total, each with that sum, which is also its division_totals entry.
RecomputedTotalsShown ==
    LET rows == view.content.divData
        positive == {dv \in DivisionsOf(data.lines) :
                        DivisionTotal(data.lines, dv) > 0}
    IN  /\ Len(rows) = Cardinality(positive)
        /\ \A dv \in positive :
                \E i \in 1..Len(rows) :
                    /\ rows[i].name[1] = dv
                    /\ rows[i].total = DivisionTotal(data.lines, dv)
                    /\ HasKey(data.division_totals, dv)
                    /\ GetKey(data.division_totals, dv) = rows[i].total

\* The supplied division_totals are the sums of the lines, division by
\* division.
TotalsAgreeWithLines(d) ==
    /\ \A dv \in DivisionsOf(d.lines) : HasKey(d.division_totals, dv)
    /\ \A e \in Range(d.division_totals) : e[2] = DivisionTotal(d.lines, e[1])

\* C5 as stated: the totals of the division table are those recomputed from
\* the lines and agree with the supplied division_totals; positive totals
\* only, in descending order of total.
C5_TotalsRecomputedFromLines ==
    (data # Null /\ activeTab = "breakdown") =>
        /\ RecomputedTotalsShown
        /\ Descending([i \in 1..Len(view.content.divData) |->
                            view.content.divData[i].total])

\* C5 as amended: the division table lists the entries of the supplied
\* division_totals whose total is positive, each once with the supplied
\* total, in descending order of total; these are the totals recomputed from
\* the lines whenever the supplied totals agree with the lines.
C5_TotalsFromSuppliedMap ==
    (data # Null /\ activeTab = "breakdown") =>
        LET rows == view.content.divData
            positive == {e \in Range(data.division_totals) : e[2] > 0}
        IN  /\ Len(rows) = Cardinality(positive)
            /\ \A e \in positive :
                    \E i \in 1..Len(rows) :
                        /\ rows[i].name = DivisionLabel(e[1])
                        /\ rows[i].total = e[2]
            /\ Descending([i \in 1..Len(rows) |-> rows[i].total])
            /\ TotalsAgreeWithLines(data) => RecomputedTotalsShown

\* A document whose supplied totals agree with its lines, shown.
C5_AgreeingShown ==
    /\ data # Null
    /\ activeTab = "breakdown"
    /\ TotalsAgreeWithLines(data)
    /\ Len(data.lines) = 2
    /\ Len(view.content.divData) = 2

C5_Witness ==
    /\ data # Null
    /\ activeTab = "breakdown"
    /\ Len(view.content.divData) = 2
    /\ view.content.divData[1].total > view.content.divData[2].total
    /\ view.content.divData[2].name[1] = data.division_totals[1][1]
    /\ \E e \in Range(data.division_totals) : e[2] <= 0
    /\ \E dv \in DivisionsOf(data.lines) :
            /\ HasKey(data.division_totals, dv)
            /\ DivisionTotal(data.lines, dv) # GetKey(data.division_totals, dv)

C12_EstimateNeverMutated ==
    data # Null =>
        /\ data = response
        /\ data.lines = response.lines

\* An expanded section whose rows the sort reordered, over unchanged lines.
C12_Witness ==
    /\ data # Null
    /\ activeTab = "details"
    /\ Len(data.lines) = 2
    /\ data.lines[1].total_cost < data.lines[2].total_cost
    /\ view.content.sections[1].isExpanded
    /\ view.content.sections[1].rows = <<data.lines[2], data.lines[1]>>
    /\ data.lines = response.lines

\* The number of positions of lines that hold l and whose division the
\* section lists.
OccurrencesInSection(lines, section, l) ==
    IF Includes(section.divisions, l.csi_division) THEN Occurrences(lines, l) ELSE 0

\* C13: the lines of a section are the lines of the document whose
\* csi_division the section lists, each as often as the document holds it,
\* and no other line; the rows of an expanded section are those lines with
\* every total_cost >= the total_cost of the row after it.
C13_SectionLinesMembersDescending ==
    (data # Null /\ activeTab = "details") =>
        /\ Len(view.content.sections) = Len(data.sections)
        /\ \A i \in 1..Len(data.sections) :
            LET shown == view.content.sections[i]
                members == {l \in Range(data.lines) :
                                Includes(data.sections[i].divisions, l.csi_division)}
            IN  /\ shown.name = data.sections[i].name
                /\ Range(shown.sectionLines) = members
                /\ \A l \in Range(data.lines) :
                        Occurrences(shown.sectionLines, l)
                            = OccurrencesInSection(data.lines, data.sections[i], l)
                /\ shown.count = Len(shown.sectionLines)
                /\ shown.isExpanded =>
                        /\ shown.rows = shown.sectionLines
                        /\ Descending([k \in 1..Len(shown.rows) |->
                                            shown.rows[k].total_cost])

C13_Witness ==
    /\ data # Null
    /\ activeTab = "details"
    /\ Len(data.lines) = 3
    /\ data.lines[1].csi_division = "03" /\ data.lines[1].total_cost = 1
    /\ data.lines[2].csi_division = "09"
    /\ data.lines[3].csi_division = "03" /\ data.lines[3].total_cost = 2
    /\ data.sections[1].divisions = <<"03">>
    /\ view.content.sections[1].isExpanded
    /\ view.content.sections[1].rows = <<data.lines[3], data.lines[1]>>

\* The first section, in the order of d.sections, that lists division dv; 0
\* when none does.
FirstSectionOf(d, dv) ==
    LET listing == {i \in 1..Len(d.sections) : Includes(d.sections[i].divisions, dv)}
    IN  IF listing = {} THEN 0 ELSE CHOOSE i \in listing : \A j \in listing : i <= j

\* C14: a line is listed under the first section that lists its division
\* and under no later section.
C14_FirstSectionOnly ==
    (data # Null /\ activeTab = "details") =>
        \A l \in Range(data.lines) :
            \A i \in 1..Len(view.content.sections) :
                (l \in Range(view.content.sections[i].sectionLines))
                    = (i = FirstSectionOf(data, l.csi_division))

\* C15: with a floor area that is zero or negative, the $/SF value of every
\* row of the division table is undefined, and showing the table does not
\* throw.
C15_CostPerAreaUndefined ==
    (data # Null /\ activeTab = "breakdown"
        /\ data.project.gross_floor_area_sf <= 0) =>
        /\ ~view.threw
        /\ \A i \in 1..Len(view.content.costPerSF) :
                view.content.costPerSF[i] = Undefined

\* C16: the overall accuracy is total_cost / benchmarks.pla.total * 100 when
\* the benchmark pla is present with a non-zero total; when it is absent or
\* its total is zero the accuracy is undefined and the render does not throw.
C16_AccuracyOrUndefined ==
    (data # Null /\ activeTab = "overview") =>
        /\ ~view.threw
        /\ IF "pla" \in DOMAIN data.benchmarks /\ data.benchmarks.pla.total # 0
           THEN view.content.accuracy =
                    [num |-> data.summary.total_cost * 100,
                     den |-> data.benchmarks.pla.total]
           ELSE view.content.accuracy = Undefined

\* C20: with summary.total_cost zero, the share of every row of the
\* division table and the share of every pricing source is undefined, and
\* showing them does not throw.
C20_SharesUndefinedOnZeroTotal ==
    (data # Null /\ activeTab = "breakdown" /\ data.summary.total_cost = 0) =>
        /\ ~view.threw
        /\ \A i \in 1..Len(view.content.divData) :
                view.content.divData[i].pct = Undefined
        /\ \A i \in 1..Len(view.content.sourceShare) :
                view.content.sourceShare[i] = Undefined

\* C17: the accuracy percentage of every section row is the row's engine
\* total divided by its benchmark total, times 100, when the benchmark total
\* is positive, and undefined when it is not.
C17_AccuracyFromRowTotals ==
    (data # Null /\ activeTab = "comparison") =>
        \A i \in 1..Len(view.content.rows) :
            LET r == view.content.rows[i]
            IN  IF r.pla > 0
                THEN r.pct * r.pla = r.engine * 100
                ELSE JSNumber(r.pct) = Undefined

\* The sum of the numerators of shares that have the same denominator.
ShareNumerators(shares) == SumSeq([i \in 1..Len(shares) |-> shares[i].num])

\* C19 as stated: for a document whose summary.total_cost is the (positive)
\* total of its lines, the shares shown for the pricing sources sum to 100%.
C19_SharesSumTo100 ==
    (data # Null /\ activeTab = "breakdown"
        /\ data.summary.total_cost = LinesTotal(data.lines)
        /\ data.summary.total_cost > 0) =>
        /\ \A i \in 1..Len(view.content.sourceShare) :
                view.content.sourceShare[i].den = data.summary.total_cost
        /\ ShareNumerators(view.content.sourceShare) = 100 * data.summary.total_cost

\* C19 as amended: each share is the source's summed total over
\* summary.total_cost, times 100, for the sources whose summed total is
\* positive; with a non-zero summary.total_cost the shares sum to the total of
\* the lines of those sources over summary.total_cost, times 100, which is
\* 100% when summary.total_cost is the total of the lines and no source's
\* summed total is negative.  With summary.total_cost zero every share is
\* Infinity.
C19_SharesSumToKeptOverTotal ==
    (data # Null /\ activeTab = "breakdown") =>
        LET shares == view.content.sourceShare
            kept == SelectSeq(data.lines,
                              LAMBDA l : GroupTotal(data.lines, l.source) > 0)
        IN  /\ Len(shares) = Len(view.sourcePieData)
            /\ IF data.summary.total_cost = 0
               THEN \A i \in 1..Len(shares) : IsInfinity(shares[i])
               ELSE /\ \A i \in 1..Len(shares) :
                        shares[i] = [num |-> view.sourcePieData[i].value * 100,
                                     den |-> data.summary.total_cost]
                    /\ ShareNumerators(shares) = 100 * LinesTotal(kept)
                    /\ (/\ data.summary.total_cost = LinesTotal(data.lines)
                        /\ \A s \in SourcesOf(data.lines) :
                                GroupTotal(data.lines, s) >= 0)
                            => ShareNumerators(shares) = 100 * data.summary.total_cost

\* Two sources with shares of one third and two thirds of the total.
C19_Witness ==
    /\ data # Null
    /\ activeTab = "breakdown"
    /\ data.summary.total_cost = LinesTotal(data.lines)
    /\ \A s \in SourcesOf(data.lines) : GroupTotal(data.lines, s) >= 0
    /\ Len(view.content.sourceShare) = 2
    /\ view.content.sourceShare[1] = [num |-> 200, den |-> 3]
    /\ view.content.sourceShare[2] = [num |-> 100, den |-> 3]

\* The fields of a line that make the document malformed: a missing
\* total_cost, a pricing source or a confidence outside the known values.
CONFIDENCE_LEVELS == {"high", "medium", "low"}

OffendingFields(line) ==
    {f \in {"total_cost"} : f \notin DOMAIN line}
    \cup {f \in {"source"} : line.source \notin DOMAIN SOURCE_LABELS}
    \cup {f \in {"confidence"} : line.confidence \notin CONFIDENCE_LEVELS}

Malformed(d) == \E i \in 1..Len(d.lines) : OffendingFields(d.lines[i]) # {}

\* What is shown names an offending field of the document as a validation
\* failure.
ValidationFailureShown ==
    /\ "validationFailure" \in DOMAIN view
    /\ \E i \in 1..Len(data.lines) : view.validationFailure \in OffendingFields(data.lines[i])

\* The sources that have a line with a positive total_cost.
SourcesWithPositiveLine(lines) ==
    {lines[i].source : i \in {j \in 1..Len(lines) :
                                /\ "total_cost" \in DOMAIN lines[j]
                                /\ lines[j].total_cost > 0}}

\* C18: a malformed document is reported as a validation failure that
\* names an offending field; short of such a report, every source that has
\* a line of positive total_cost is among the totals shown.
C18_MalformedInputReported ==
    data # Null =>
        /\ Malformed(data) => ValidationFailureShown
        /\ ~ValidationFailureShown =>
                \A s \in SourcesWithPositiveLine(data.lines) :
                    \E i \in 1..Len(view.sourcePieData) :
                        view.sourcePieData[i].name = SourceName(s)

\* A source is missing from the totals shown, with its lines of positive
\* total_cost, because one of its lines has no total_cost, and nothing is
\* reported.
C18_SourceSilentlyExcluded ==
    /\ data # Null
    /\ ~ValidationFailureShown
    /\ Len(data.lines) = 2
    /\ data.lines[1] = LineOf(2, "03", "cost_db", "high")
    /\ data.lines[2] = LineWithoutTotalCost("cost_db")
    /\ view.sourcePieData = <<>>

\* A total restarted after a line without total_cost: the source is shown
\* with the sum of the lines after that line only.
C18_TotalSilentlyPartial ==
    /\ data # Null
    /\ ~ValidationFailureShown
    /\ Len(data.lines) = 3
    /\ data.lines[1] = LineOf(2, "03", "cost_db", "high")
    /\ data.lines[2] = LineWithoutTotalCost("cost_db")
    /\ data.lines[3] = LineOf(1, "03", "cost_db", "high")
    /\ view.sourcePieData = <<[name |-> "Cost Database", value |-> 1]>>

\* C21: the comparison table closes with a TOTAL row whose engine total is
\* summary.total_cost and whose benchmark total is benchmarks.pla.total, and
\* whose variance, accuracy and tier follow the rules of the section rows:
\* the variance is engine minus benchmark, the accuracy is undefined when
\* the benchmark total is zero, and the accuracy is presented as on target
\* exactly when it lies in the band from 90 to 110.
C21_TotalRowLikeSectionRows ==
    (data # Null /\ activeTab = "comparison") =>
        /\ ~view.threw
        /\ LET t == view.content.total
               e == data.summary.total_cost
               p == data.benchmarks.pla.total
           IN  /\ t.name = "TOTAL"
               /\ t.engine = e
               /\ t.pla = p
               /\ t.variance = e - p
               /\ IF p = 0
                  THEN t.accuracy = Undefined
                  ELSE /\ t.accuracy = [num |-> e * 100, den |-> p]
                       /\ (t.accuracyClass = TEXT_EMERALD)
                              <=> (e * 100 >= 90 * p /\ e * 100 <= 110 * p)

\* C22: the rows of the comparison table, and the bars of the overview chart,
\* are the sections of the document in the order of the document: row i is
\* section i, no section is dropped and none is moved.
C22_RowsInSectionOrder ==
    (data # Null /\ ~view.threw) =>
        /\ Len(view.sectionBarData) = Len(data.sections)
        /\ \A i \in 1..Len(data.sections) :
                /\ view.sectionBarData[i].fullName = data.sections[i].name
                /\ view.sectionBarData[i].pct = data.sections[i].pct
        /\ activeTab = "comparison" =>
                /\ Len(view.content.rows) = Len(data.sections)
                /\ \A i \in 1..Len(data.sections) :
                        /\ view.content.rows[i].name = data.sections[i].name
                        /\ view.content.rows[i].engine = data.sections[i].engine
                        /\ view.content.rows[i].pla = data.sections[i].pla
                        /\ view.content.rows[i].pct = data.sections[i].pct

\* The comparison table of two sections of which the second has the larger
\* percentage: the first is still shown first.
C22_Witness ==
    /\ data # Null
    /\ activeTab = "comparison"
    /\ Len(data.sections) = 2
    /\ data.sections[1].pct < data.sections[2].pct
    /\ view.content.rows[1].name = "Structure"
    /\ view.content.rows[2].name = "Finishes"
    /\ view.content.rows[1].pct < view.content.rows[2].pct

\* C23: in every section row of the comparison table the variance is the
\* engine total minus the benchmark total of that section: positive when
\* the engine total is the larger, negative when it is the smaller, zero
\* when the two are equal.
C23_VarianceIsEngineMinusBenchmark ==
    (data # Null /\ activeTab = "comparison" /\ ~view.threw) =>
        \A i \in 1..Len(data.sections) :
            LET s == data.sections[i]
                r == view.content.rows[i]
            IN  /\ r.variance = s.engine - s.pla
                /\ r.variance > 0 <=> s.engine > s.pla
                /\ r.variance < 0 <=> s.engine < s.pla
                /\ r.variance = 0 <=> s.engine = s.pla

\* A table with a section above its benchmark and a section below it.
C23_Witness ==
    /\ data # Null
    /\ activeTab = "comparison"
    /\ Len(data.sections) = 2
    /\ data.sections[1].engine > data.sections[1].pla
    /\ view.content.rows[1].variance = 10
    /\ data.sections[2].engine < data.sections[2].pla
    /\ view.content.rows[2].variance = -1

\* C24: the derived views are a function of the estimate and of the
\* parameters of the view alone.  Whatever handlers ran before, the values
\* shown are the ones a first computation on the fetched estimate yields:
\* the source, section and confidence aggregates do not depend on the active
\* tab or on the expanded sections, the content of a tab is the content a
\* fresh computation gives for that tab, and the number of lines of a
\* section does not depend on which sections are expanded.
C24_ViewsAreFunctionOfEstimate ==
    (data # Null /\ ~view.threw) =>
        /\ view.sourcePieData = sourcePieData(response)
        /\ view.sectionBarData = sectionBarData(response)
        /\ view.confidenceCounts = confidenceCounts(response)
        /\ view.content = TabContent(response, activeTab, expandedSections)
        /\ activeTab = "details" =>
                \A i \in 1..Len(response.sections) :
                    view.content.sections[i].count =
                        TabContent(response, "details", {}).sections[i].count

\* The overview, shown again after a section was expanded in the details
\* tab, for lines that expanding the section lists in another order and
\* whose two sources tie in their totals.
C24_Witness ==
    /\ data # Null
    /\ activeTab = "overview"
    /\ expandedSections # {}
    /\ Len(response.lines) = 3
    /\ SortLinesFrom(response.lines, <<>>) # response.lines
    /\ Len(view.sourcePieData) = 2
    /\ view.sourcePieData[1].value = view.sourcePieData[2].value

\* The number of lines of the document that carry the confidence c.
LinesWithConfidence(c) ==
    Cardinality({j \in 1..Len(data.lines) : data.lines[j].confidence = c})

\* C26: confidenceCounts has a key exactly for the confidence values that
\* occur in some line, none of them with the count zero; the overview shows
\* for each of high, medium and low the number of lines carrying it, zero
\* for a level without a key, and as percentage that number over the
\* number of lines times 100, or 0 when there are no lines.
C26_AbsentTierCountsZero ==
    (data # Null /\ activeTab = "overview" /\ ~view.threw) =>
        /\ {view.confidenceCounts[i][1] : i \in 1..Len(view.confidenceCounts)}
                = {data.lines[j].confidence : j \in 1..Len(data.lines)}
        /\ \A i \in 1..Len(view.confidenceCounts) : view.confidenceCounts[i][2] > 0
        /\ {view.content.confidenceBars[i].level : i \in 1..Len(view.content.confidenceBars)}
                = {"high", "medium", "low"}
        /\ \A i \in 1..Len(view.content.confidenceBars) :
                LET bar == view.content.confidenceBars[i]
                IN  /\ bar.count = LinesWithConfidence(bar.level)
                    /\ bar.pct = IF Len(data.lines) = 0
                                 THEN [num |-> 0, den |-> 1]
                                 ELSE [num |-> bar.count * 100, den |-> Len(data.lines)]

\* The overview of a document without lines: no key in confidenceCounts and
\* 0 items (0%) for every level.
C26_Witness ==
    /\ data # Null
    /\ activeTab = "overview"
    /\ data.lines = <<>>
    /\ view.confidenceCounts = <<>>
    /\ \A i \in 1..3 :
            /\ view.content.confidenceBars[i].count = 0
            /\ view.content.confidenceBars[i].pct = [num |-> 0, den |-> 1]

\* The overview of lines none of which has medium confidence.
C26_AbsentTierShown ==
    /\ data # Null
    /\ activeTab = "overview"
    /\ Len(data.lines) = 3
    /\ ~HasKey(view.confidenceCounts, "medium")
    /\ view.content.confidenceBars[2] =
            [level |-> "medium", count |-> 0, pct |-> [num |-> 0, den |-> 3]]

\* Names of sections: the two of the documents and one no document has.
SectionNames == {"Structure", "Finishes", "Sitework"}

\* C27: toggling a name flips the membership of that name in the set of
\* expanded sections and of no other name, toggling it twice gives the set
\* back, and a step that switches the tab leaves the set as it was: a step
\* changes the set only by flipping one name, with the tab unchanged.
C27_ToggleFlipsOneName ==
    /\ [](\A name \in SectionNames :
            /\ name \in toggled(expandedSections, name) <=> name \notin expandedSections
            /\ \A other \in SectionNames \ {name} :
                    other \in toggled(expandedSections, name) <=> other \in expandedSections
            /\ toggled(toggled(expandedSections, name), name) = expandedSections)
    /\ [][/\ activeTab' # activeTab => expandedSections' = expandedSections
          /\ expandedSections' # expandedSections =>
                \E name \in SectionNames :
                    /\ expandedSections' = toggled(expandedSections, name)
                    /\ name \in expandedSections' <=> name \notin expandedSections
                    /\ \A other \in SectionNames \ {name} :
                            other \in expandedSections' <=> other \in expandedSections]_vars

\* Both sections were expanded, the first was collapsed again, and the tab
\* was switched: the second is still the one expanded section.
C27_Witness ==
    /\ data # Null
    /\ activeTab = "comparison"
    /\ expandedSections = {"Finishes"}

(***************************************************************************)
(* Properties of the extraction dashboard.                                 *)
(***************************************************************************)
\* Two characters that are the same letter, whatever their case.
SameLetter(c1, c2) == c1 = c2 \/ {c1, c2} = {"a", "A"}

\* needle occurs in str at some offset, letter by letter, ignoring case.
ContainsIgnoringCase(str, needle) ==
    \E k \in 0..(Len(str) - Len(needle)) :
        \A j \in 1..Len(needle) : SameLetter(str[k + j], needle[j])

\* The three predicates of the filter, as the specification words them.  The filter
\* of the code takes no source parameter: its source is always undefined,
\* which the specification has match every item.
SearchPredicate(item) ==
    searchQuery = <<>> \/ ContainsIgnoringCase(item.content, searchQuery)

DisciplinePredicate(item) ==
    selectedDiscipline = "all" \/ item.discipline = selectedDiscipline

SourcePredicate(item) == TRUE

Satisfying(items) ==
    {i \in 1..Len(items) :
        SearchPredicate(items[i]) /\ DisciplinePredicate(items[i]) /\ SourcePredicate(items[i])}

C8_NoOpFilterIsIdentity ==
    (xData # Null /\ searchQuery = <<>> /\ selectedDiscipline = "all") =>
        xView.filteredItems = xData.sample_items

C8_Witness ==
    /\ xData # Null
    /\ searchQuery = <<>>
    /\ selectedDiscipline = "all"
    /\ Len(xData.sample_items) = 2
    /\ xData.sample_items[1] # xData.sample_items[2]
    /\ xView.filteredItems = xData.sample_items

\* C10: with the discipline 'all', an item is shown iff the search text is
\* empty or occurs in the item's content, ignoring case.
C10_SearchIgnoresCase ==
    (xData # Null /\ selectedDiscipline = "all") =>
        \A i \in 1..Len(xData.sample_items) :
            LET item == xData.sample_items[i]
            IN  (item \in Range(xView.filteredItems))
                    = (searchQuery = <<>> \/ ContainsIgnoringCase(item.content, searchQuery))

C10_Witness ==
    /\ xData # Null
    /\ selectedDiscipline = "all"
    /\ searchQuery = <<"A">>
    /\ xData.sample_items[1].content = <<"b", "a">>
    /\ xView.filteredItems = xData.sample_items

FilteredViewIsCurrent ==
    xData # Null =>
        LET items == xData.sample_items
            shown == xView.filteredItems
            keep == Satisfying(items)
        IN  /\ Len(shown) = Cardinality(keep)
            /\ \A i \in keep : shown[Cardinality({j \in keep : j <= i})] = items[i]

\* C25: every step that changes the search text, the discipline filter or
\* the loaded document ends with the filtered view of the new values on
\* the page, never the view of the values before the step; a step that
\* changes none of them leaves the filtered view as it was.
C25_FilteredViewFollowsFilter ==
    [][IF \/ searchQuery' # searchQuery
          \/ selectedDiscipline' # selectedDiscipline
          \/ xData' # xData
       THEN FilteredViewIsCurrent'
       ELSE xData # Null => xView'.filteredItems = xView.filteredItems]_vars

\* A search text and a discipline were chosen one after the other, and the
\* view is neither the unfiltered one nor the one of the search text alone.
C25_Witness ==
    /\ xData # Null
    /\ searchQuery # <<>>
    /\ selectedDiscipline # "all"
    /\ xView.filteredItems # <<>>
    /\ xView.filteredItems # xData.sample_items
    /\ xView.filteredItems # filteredItems(xData, searchQuery, "all")

\* C29: with n the number of filtered items, the items table has
\* min(100, n) rows, row i showing the i-th filtered item; the line above
\* the table says n items shown, not the number of rows; the notice
\* 'Showing 100 of n items' is on the page exactly when n > 100.
C29_FirstHundredShown ==
    (xData # Null /\ xActiveTab = "items") =>
        LET f == xView.filteredItems
            n == Cardinality(Satisfying(xData.sample_items))
            rows == xView.content.rows
        IN  /\ Len(f) = n
            /\ Len(rows) = IF n < 100 THEN n ELSE 100
            /\ \A i \in 1..Len(rows) : rows[i] = f[i]
            /\ xView.content.itemsShown = n
            /\ xView.content.notice.visible <=> n > 100
            /\ xView.content.notice.visible =>
                    /\ xView.content.notice.shown = 100
                    /\ xView.content.notice.of = n

\* Of 201 items, the 101 of one discipline are kept: 100 rows, the last of
\* them the item of page 199, the count 101 and the notice.
C29_Witness ==
    /\ xData # Null
    /\ xActiveTab = "items"
    /\ selectedDiscipline = "mechanical"
    /\ searchQuery = <<>>
    /\ Len(xData.sample_items) = 201
    /\ Len(xView.content.rows) = 100
    /\ xView.content.rows[100].page = 199
    /\ xView.content.itemsShown = 101
    /\ xView.content.notice = [visible |-> TRUE, shown |-> 100, of |-> 101]

\* Exactly 100 filtered items: all of them are rows and there is no notice.
C29_NoNoticeAtHundred ==
    /\ xData # Null
    /\ xActiveTab = "items"
    /\ xView.content.itemsShown = 100
    /\ Len(xView.content.rows) = 100
    /\ ~xView.content.notice.visible

(***************************************************************************)
(* Properties of both dashboards, mounted side by side.                    *)
(***************************************************************************)
\* C28: while the document of a dashboard is null, the page of that
\* dashboard is the loading placeholder and nothing else, with no derived
\* view and no error state; a fetch that rejects leaves the document null,
\* so the placeholder stays; a document once set is never null again.
C28_LoadingUntilLoaded ==
    /\ [](data = Null => view = [loading |-> TRUE])
    /\ [](xData = Null => xView = [loading |-> TRUE])
    /\ [](response = Rejected => data = Null)
    /\ [](xResponse = Rejected => xData = Null)
    /\ [][/\ data # Null => data' # Null
          /\ xData # Null => xData' # Null]_vars

\* The estimate is loaded and its tabs were used, while the fetch of the
\* extraction document was rejected and its placeholder is still shown.
C28_Witness ==
    /\ data # Null
    /\ activeTab = "details"
    /\ expandedSections # {}
    /\ ~view.loading
    /\ xResponse = Rejected
    /\ xData = Null
    /\ xView = [loading |-> TRUE]

=============================================================================
